---------------------------- MODULE Spec2Model ----------------------------
(***************************************************************************)
(* Model of fix_hebrew.py: the reversed-Hebrew classifier                  *)
(* (is_reversed_hebrew), the record transformer (fix_question) and the     *)
(* driver (main) that loads a collection of question records, fixes the    *)
(* flagged ones and writes the collection back.                            *)
(*                                                                         *)
(* A string is a sequence of characters; a character is named by a TLA+    *)
(* string: "sp" U+0020, "nl" U+000A, "tab" U+0009, "qm" ?, "dot" .,        *)
(* "bang" !, "comma" , and the Hebrew letters by their Unicode names       *)
(* ("he" U+05D4, "mem" U+05DE, "final_kaf" U+05DA, ...), in the logical    *)
(* (stored) order of the code points of the source file.                   *)
(*                                                                         *)
(* Python objects live on a heap: dicts[a] is the dict at address a (a     *)
(* function from its keys to its values), lists[a] the list at address a.  *)
(* A dict's "options" value is the address of a list; its other values     *)
(* (strings, integers) are immutable and held by value.                    *)
(***************************************************************************)
EXTENDS Integers, Sequences, FiniteSets, TLC

VARIABLES
    file,             \* contents of src/data/sailing_questions.json (a JSON value)
    input,            \* what the file held when the run started (never changes)
    dicts,            \* heap of dict objects
    lists,            \* heap of list objects
    questions,        \* main: the loaded collection (addresses of dicts)
    fixed_questions,  \* main: the output collection (addresses of dicts)
    fixed_count,      \* main: the counter
    fixed_ids,        \* main: ids of the fixed records
    idx,              \* main: number of records the for loop has consumed
    pc,               \* main: "start", "loop", "print", "done", "aborted"
    err,              \* key of the KeyError that ended the run, or "none"
    out               \* what main printed: <<>>, or one report

vars == <<file, input, dicts, lists, questions, fixed_questions, fixed_count,
          fixed_ids, idx, pc, err, out>>

-----------------------------------------------------------------------------
(* Bounds of the model. *)

MaxRecords == 3      \* longest collection built from the record shapes
MaxTokens == 4       \* longest text built from the core tokens
MaxBig == 21         \* longest collection of all-reversed records

-----------------------------------------------------------------------------
(* Strings. *)

\* text[::-1]
reverse_hebrew(text) ==
    [k \in 1..Len(text) |-> text[Len(text) + 1 - k]]

\* pattern in text
Contains(text, pattern) ==
    \E k \in 1..(Len(text) - Len(pattern) + 1) :
        SubSeq(text, k, k + Len(pattern) - 1) = pattern

\* characters str.strip() removes
Whitespace == {"sp", "nl", "tab"}

\* text.strip()
Strip(text) ==
    LET keep == {k \in 1..Len(text) : text[k] \notin Whitespace}
    IN  IF keep = {} THEN <<>>
        ELSE LET first == CHOOSE k \in keep : \A j \in keep : k <= j
                 last == CHOOSE k \in keep : \A j \in keep : j <= k
             IN  SubSeq(text, first, last)

reversed_patterns ==
    << <<"sp", "he", "mem", "sp">>,
       <<"sp", "he", "mem", "comma">>,
       <<"comma", "he", "mem", "sp">>,
       <<"he", "mem", "qm">>,
       <<"sp", "yod", "mem", "sp">>,
       <<"sp", "final_kaf", "yod", "alef", "sp">>,
       <<"sp", "final_mem", "alef", "he", "sp">>,
       <<"final_nun", "yod", "het", "bet", "mem">>,
       <<"tav", "nun", "yod", "pe", "samekh">>,
       <<"tav", "yod", "shin", "resh", "pe", "mem">>,
       <<"final_kaf", "mem", "vav", "tet", "resh", "het">>,
       <<"he", "gimel", "lamed", "pe", "he">> >>

correct_patterns ==
    << <<"mem", "he", "sp">>,
       <<"mem", "yod", "sp">>,
       <<"alef", "yod", "final_kaf", "sp">>,
       <<"he", "alef", "final_mem", "sp">>,
       <<"he", "yod", "nun", "final_kaf">>,
       <<"bet", "ayin", "tav", "sp">>,
       <<"kaf", "alef", "shin", "resh">> >>

\* the literal of the regular expression: reversed "during"
TrailingWord == <<"tav", "ayin", "bet">>

\* the character class [?.!]
TrailingPunct == {"qm", "dot", "bang"}

\* where $ matches (no MULTILINE flag): at the end of the string, and just
\* before a newline that is the last character
AtDollar(s, k) ==
    \/ k = Len(s)
    \/ k = Len(s) - 1 /\ s[Len(s)] = "nl"

\* re.search(r'<TrailingWord>[?.!]?$', s): k is the last character matched
SearchTrailing(s) ==
    \E i \in 1..(Len(s) - 2) :
        /\ SubSeq(s, i, i + 2) = TrailingWord
        /\ \/ AtDollar(s, i + 2)
           \/ /\ i + 3 <= Len(s)
              /\ s[i + 3] \in TrailingPunct
              /\ AtDollar(s, i + 3)

\* the mutants of is_reversed_hebrew used by the checks below
is_reversed_hebrew_ReversedFirst(text) ==
    IF text = <<>> THEN FALSE
    ELSE IF \E p \in 1..Len(reversed_patterns) : Contains(text, reversed_patterns[p])
         THEN TRUE
    ELSE IF \E p \in 1..Len(correct_patterns) : Contains(text, correct_patterns[p])
         THEN FALSE
    ELSE SearchTrailing(Strip(text))

is_reversed_hebrew_NoStrip(text) ==
    IF text = <<>> THEN FALSE
    ELSE IF \E p \in 1..Len(correct_patterns) : Contains(text, correct_patterns[p])
         THEN FALSE
    ELSE IF \E p \in 1..Len(reversed_patterns) : Contains(text, reversed_patterns[p])
         THEN TRUE
    ELSE SearchTrailing(text)

is_reversed_hebrew(text) ==
    IF text = <<>> THEN FALSE
    ELSE IF \E p \in 1..Len(correct_patterns) : Contains(text, correct_patterns[p])
         THEN FALSE
    ELSE IF \E p \in 1..Len(reversed_patterns) : Contains(text, reversed_patterns[p])
         THEN TRUE
    ELSE SearchTrailing(Strip(text))

-----------------------------------------------------------------------------
(* Dicts on the heap. *)

\* d[k] = v on a dict value
Put(d, k, v) ==
    [x \in (DOMAIN d) \cup {k} |-> IF x = k THEN v ELSE d[x]]

\* the result of a call of fix_question: the heap after it, the address it
\* returned (0 when it raised), the key of the KeyError it raised or "none"
Returned(ds, ls, ret) == [dicts |-> ds, lists |-> ls, ret |-> ret, err |-> "none"]
Raised(ds, ls, key) == [dicts |-> ds, lists |-> ls, ret |-> 0, err |-> key]

\* [reverse_hebrew(opt) for opt in <the list at address a>]
ReversedOptions(ls, a) ==
    [k \in 1..Len(ls[a]) |-> reverse_hebrew(ls[a][k])]

\* the mutants of fix_question used by the checks below
\* fixed = question: no copy
fix_question_NoCopy(ds, ls, question) ==
    IF "text" \notin DOMAIN ds[question] THEN Raised(ds, ls, "text")
    ELSE
    LET ds2 == [ds EXCEPT ![question] =
                   Put(@, "text", reverse_hebrew(ds[question]["text"]))]
    IN  IF "options" \notin DOMAIN ds2[question] THEN Raised(ds2, ls, "options")
        ELSE
        LET ls1 == Append(ls, ReversedOptions(ls, ds2[question]["options"]))
            ds3 == [ds2 EXCEPT ![question] = Put(@, "options", Len(ls1))]
            ds4 == IF "category" \in DOMAIN ds3[question]
                   THEN [ds3 EXCEPT ![question] =
                            Put(@, "category",
                                reverse_hebrew(ds3[question]["category"]))]
                   ELSE ds3
        IN  Returned(ds4, ls1, question)

\* fixed = {}: the record rebuilt from the three fields
fix_question_Rebuild(ds, ls, question) ==
    IF "text" \notin DOMAIN ds[question] THEN Raised(ds, ls, "text")
    ELSE IF "options" \notin DOMAIN ds[question] THEN Raised(ds, ls, "options")
    ELSE
    LET ls1 == Append(ls, ReversedOptions(ls, ds[question]["options"]))
        base == [k \in {"text", "options"} |->
                    IF k = "text" THEN reverse_hebrew(ds[question]["text"])
                    ELSE Len(ls1)]
        new == IF "category" \in DOMAIN ds[question]
               THEN Put(base, "category", reverse_hebrew(ds[question]["category"]))
               ELSE base
    IN  Returned(Append(ds, new), ls1, Len(ds) + 1)

\* question.get('category', ''): category set whether present or not
fix_question_AlwaysCategory(ds, ls, question) ==
    LET ds1 == Append(ds, ds[question])
        fixed == Len(ds1)
    IN  IF "text" \notin DOMAIN ds1[question] THEN Raised(ds1, ls, "text")
        ELSE
        LET ds2 == [ds1 EXCEPT ![fixed] =
                       Put(@, "text", reverse_hebrew(ds1[question]["text"]))]
        IN  IF "options" \notin DOMAIN ds2[question] THEN Raised(ds2, ls, "options")
            ELSE
            LET ls1 == Append(ls, ReversedOptions(ls, ds2[question]["options"]))
                ds3 == [ds2 EXCEPT ![fixed] = Put(@, "options", Len(ls1))]
                cat == IF "category" \in DOMAIN ds3[question]
                       THEN ds3[question]["category"] ELSE <<>>
                ds4 == [ds3 EXCEPT ![fixed] = Put(@, "category", reverse_hebrew(cat))]
            IN  Returned(ds4, ls1, fixed)

\* the category branch left out
fix_question_SkipCategory(ds, ls, question) ==
    LET ds1 == Append(ds, ds[question])
        fixed == Len(ds1)
    IN  IF "text" \notin DOMAIN ds1[question] THEN Raised(ds1, ls, "text")
        ELSE
        LET ds2 == [ds1 EXCEPT ![fixed] =
                       Put(@, "text", reverse_hebrew(ds1[question]["text"]))]
        IN  IF "options" \notin DOMAIN ds2[question] THEN Raised(ds2, ls, "options")
            ELSE
            LET ls1 == Append(ls, ReversedOptions(ls, ds2[question]["options"]))
                ds3 == [ds2 EXCEPT ![fixed] = Put(@, "options", Len(ls1))]
            IN  Returned(ds3, ls1, fixed)

\* question.get('options', []): a missing options list taken as empty
fix_question_OptionsOptional(ds, ls, question) ==
    LET ds1 == Append(ds, ds[question])
        fixed == Len(ds1)
    IN  IF "text" \notin DOMAIN ds1[question] THEN Raised(ds1, ls, "text")
        ELSE
        LET ds2 == [ds1 EXCEPT ![fixed] =
                       Put(@, "text", reverse_hebrew(ds1[question]["text"]))]
            ls1 == IF "options" \in DOMAIN ds2[question]
                   THEN Append(ls, ReversedOptions(ls, ds2[question]["options"]))
                   ELSE Append(ls, <<>>)
            ds3 == [ds2 EXCEPT ![fixed] = Put(@, "options", Len(ls1))]
            ds4 == IF "category" \in DOMAIN ds3[question]
                   THEN [ds3 EXCEPT ![fixed] =
                            Put(@, "category",
                                reverse_hebrew(ds3[question]["category"]))]
                   ELSE ds3
        IN  Returned(ds4, ls1, fixed)

fix_question(ds, ls, question) ==
    LET ds1 == Append(ds, ds[question])          \* fixed = question.copy()
        fixed == Len(ds1)
    IN  IF "text" \notin DOMAIN ds1[question] THEN Raised(ds1, ls, "text")
        ELSE
        LET ds2 == [ds1 EXCEPT ![fixed] =
                       Put(@, "text", reverse_hebrew(ds1[question]["text"]))]
        IN  IF "options" \notin DOMAIN ds2[question] THEN Raised(ds2, ls, "options")
            ELSE
            LET ls1 == Append(ls, ReversedOptions(ls, ds2[question]["options"]))
                ds3 == [ds2 EXCEPT ![fixed] = Put(@, "options", Len(ls1))]
                ds4 == IF "category" \in DOMAIN ds3[question]
                       THEN [ds3 EXCEPT ![fixed] =
                                Put(@, "category",
                                    reverse_hebrew(ds3[question]["category"]))]
                       ELSE ds3
            IN  Returned(ds4, ls1, fixed)

-----------------------------------------------------------------------------
(* The storage file and the heap. *)

\* the JSON value of the dict at address a: its list inlined
ToJson(ds, ls, a) ==
    [k \in DOMAIN ds[a] |-> IF k = "options" THEN ls[ds[a][k]] ELSE ds[a][k]]

\* json.dump(collection, f): the JSON value of a list of dict addresses
Dump(ds, ls, collection) ==
    [i \in 1..Len(collection) |-> ToJson(ds, ls, collection[i])]

\* records of a JSON collection that carry "options", among the first i
WithOptions(json, i) ==
    {j \in 1..i : "options" \in DOMAIN json[j]}

\* json.load(f): record i becomes the dict at address i, and its options
\* the next list allocated
LoadDicts(json) ==
    [i \in 1..Len(json) |->
        [k \in DOMAIN json[i] |->
            IF k = "options" THEN Cardinality(WithOptions(json, i)) ELSE json[i][k]]]

LoadLists(json) ==
    [a \in 1..Cardinality(WithOptions(json, Len(json))) |->
        LET i == CHOOSE j \in WithOptions(json, Len(json)) :
                     Cardinality(WithOptions(json, j)) = a
        IN  json[i]["options"]]

\* q.get('text', '')
GetText(ds, q) ==
    IF "text" \in DOMAIN ds[q] THEN ds[q]["text"] ELSE <<>>

\* fixed_ids[:20] and the test len(fixed_ids) > 20
DisplayLimit == 20

\* the mutant of FixedIdsLine used by the checks below: >= for >
FixedIdsLine_AtLimit(ids) ==
    IF Len(ids) >= DisplayLimit
    THEN [ids |-> SubSeq(ids, 1, DisplayLimit), ellipsis |-> TRUE]
    ELSE [ids |-> ids, ellipsis |-> FALSE]

\* the second print: the ids shown, and whether "..." follows them
FixedIdsLine(ids) ==
    IF Len(ids) > DisplayLimit
    THEN [ids |-> SubSeq(ids, 1, DisplayLimit), ellipsis |-> TRUE]
    ELSE [ids |-> ids, ellipsis |-> FALSE]

-----------------------------------------------------------------------------
(* The driver. *)

\* with open(..., 'r') as f: questions = json.load(f); the three locals
Load ==
    /\ pc = "start"
    /\ dicts' = LoadDicts(file)
    /\ lists' = LoadLists(file)
    /\ questions' = [i \in 1..Len(file) |-> i]
    /\ fixed_count' = 0
    /\ fixed_questions' = <<>>
    /\ fixed_ids' = <<>>
    /\ idx' = 0
    /\ pc' = "loop"
    /\ UNCHANGED <<file, input, err, out>>

\* one iteration, else branch: fixed_questions.append(q)
LoopKeep ==
    /\ pc = "loop"
    /\ idx < Len(questions)
    /\ LET q == questions[idx + 1]
       IN  /\ ~is_reversed_hebrew(GetText(dicts, q))
           /\ fixed_questions' = Append(fixed_questions, q)
    /\ idx' = idx + 1
    /\ UNCHANGED <<file, input, dicts, lists, questions, fixed_count, fixed_ids,
                   pc, err, out>>

\* one iteration, then branch, nothing raised
LoopFix ==
    /\ pc = "loop"
    /\ idx < Len(questions)
    /\ LET q == questions[idx + 1]
           r == fix_question(dicts, lists, q)
       IN  /\ is_reversed_hebrew(GetText(dicts, q))
           /\ r.err = "none"
           /\ "id" \in DOMAIN r.dicts[q]
           /\ dicts' = r.dicts
           /\ lists' = r.lists
           /\ fixed_questions' = Append(fixed_questions, r.ret)
           /\ fixed_count' = fixed_count + 1
           /\ fixed_ids' = Append(fixed_ids, r.dicts[q]["id"])
    /\ idx' = idx + 1
    /\ UNCHANGED <<file, input, questions, pc, err, out>>

\* one iteration, then branch: fix_question(q) raised KeyError
LoopRaiseFix ==
    /\ pc = "loop"
    /\ idx < Len(questions)
    /\ LET q == questions[idx + 1]
           r == fix_question(dicts, lists, q)
       IN  /\ is_reversed_hebrew(GetText(dicts, q))
           /\ r.err # "none"
           /\ dicts' = r.dicts
           /\ lists' = r.lists
           /\ err' = r.err
    /\ pc' = "aborted"
    /\ UNCHANGED <<file, input, questions, fixed_questions, fixed_count,
                   fixed_ids, idx, out>>

\* one iteration, then branch: q['id'] raised KeyError, after the append and
\* the increment
LoopRaiseId ==
    /\ pc = "loop"
    /\ idx < Len(questions)
    /\ LET q == questions[idx + 1]
           r == fix_question(dicts, lists, q)
       IN  /\ is_reversed_hebrew(GetText(dicts, q))
           /\ r.err = "none"
           /\ "id" \notin DOMAIN r.dicts[q]
           /\ dicts' = r.dicts
           /\ lists' = r.lists
           /\ fixed_questions' = Append(fixed_questions, r.ret)
           /\ fixed_count' = fixed_count + 1
    /\ err' = "id"
    /\ pc' = "aborted"
    /\ UNCHANGED <<file, input, questions, fixed_ids, idx, out>>

\* the loop is over: with open(..., 'w') as f: json.dump(fixed_questions, f)
Write ==
    /\ pc = "loop"
    /\ idx = Len(questions)
    /\ file' = Dump(dicts, lists, fixed_questions)
    /\ pc' = "print"
    /\ UNCHANGED <<input, dicts, lists, questions, fixed_questions, fixed_count,
                   fixed_ids, idx, err, out>>

\* the two prints
Report ==
    /\ pc = "print"
    /\ out' = << [fixed |-> fixed_count,
                  total |-> Len(questions),
                  line |-> FixedIdsLine(fixed_ids)] >>
    /\ pc' = "done"
    /\ UNCHANGED <<file, input, dicts, lists, questions, fixed_questions,
                   fixed_count, fixed_ids, idx, err>>

Next ==
    \/ Load
    \/ LoopKeep
    \/ LoopFix
    \/ LoopRaiseFix
    \/ LoopRaiseId
    \/ Write
    \/ Report

-----------------------------------------------------------------------------
(* Inputs: the collections the storage file holds when main starts. *)

\* the two texts of the end-to-end scenario, a text with no marker, a text
\* the trailing rule alone flags
TextReversed ==
    <<"sp", "he", "mem", "sp", "tav", "lamed", "vav", "kaf", "yod", "qm">>
TextCorrect ==
    <<"mem", "he", "sp", "he", "tav", "lamed", "vav", "kaf", "yod", "qm">>
TextNeutral == <<"shin", "lamed", "vav", "final_mem">>
TextTrailing == <<"shin", "sp", "tav", "ayin", "bet", "qm", "sp">>

OptA == <<"kaf", "final_nun">>
OptB == <<"lamed", "alef">>
OptLooksReversed == <<"he", "mem", "qm">>
OptLooksCorrect == <<"mem", "he", "sp", "alef">>
CatA == <<"yod", "final_mem">>
CatLooksReversed == <<"tav", "nun", "yod", "pe", "samekh">>

\* record shapes: which keys a record carries, and what they hold
Shapes ==
    << [id |-> 11, text |-> TextReversed, options |-> <<OptA, OptB>>,
        category |-> CatA, correct |-> 0],
       [id |-> 12, text |-> TextCorrect, options |-> <<OptLooksReversed>>,
        category |-> CatLooksReversed, correct |-> 1],
       [id |-> 13, text |-> TextReversed, options |-> <<OptLooksCorrect>>],
       [id |-> 14, text |-> TextReversed],
       [text |-> TextReversed, options |-> <<>>],
       [id |-> 16, options |-> <<OptLooksReversed>>],
       [id |-> 17, text |-> <<>>, options |-> <<>>, category |-> <<>>],
       [id |-> 18, text |-> TextNeutral, options |-> <<OptA>>],
       [id |-> 19, text |-> TextTrailing,
        options |-> <<OptA, OptLooksReversed, OptLooksCorrect>>,
        category |-> CatLooksReversed, correct |-> 2] >>

\* the end-to-end scenario's collection, as written and with options
Scenario ==
    << [id |-> 1, text |-> TextReversed], [id |-> 2, text |-> TextCorrect] >>
ScenarioWithOptions ==
    << [id |-> 1, text |-> TextReversed, options |-> <<OptA, OptB>>],
       [id |-> 2, text |-> TextCorrect, options |-> <<OptA, OptB>>] >>

\* n records, all flagged, with ids 101, 102, ...
Big(n) ==
    [i \in 1..n |-> [id |-> 100 + i, text |-> TextReversed, options |-> <<OptA>>]]

\* the state before main runs on the collection json
StartOn(json) ==
    /\ file = json
    /\ input = json
    /\ dicts = <<>>
    /\ lists = <<>>
    /\ questions = <<>>
    /\ fixed_questions = <<>>
    /\ fixed_count = 0
    /\ fixed_ids = <<>>
    /\ idx = 0
    /\ pc = "start"
    /\ err = "none"
    /\ out = <<>>

Init ==
    \/ \E n \in 0..MaxRecords : \E f \in [1..n -> 1..Len(Shapes)] :
           StartOn([i \in 1..n |-> Shapes[f[i]]])
    \/ StartOn(Scenario)
    \/ StartOn(ScenarioWithOptions)
    \/ \E n \in 0..MaxBig : StartOn(Big(n))

Spec == Init /\ [][Next]_vars

\* texts for the classifier: the tokens they are built from
CoreTokens ==
    { <<"sp">>, <<"nl">>, <<"qm">>, <<"mem">>, <<"shin">>, TrailingWord,
      reversed_patterns[1], reversed_patterns[4],
      correct_patterns[1], correct_patterns[6] }

AllTokens ==
    CoreTokens
    \cup {reversed_patterns[p] : p \in 1..Len(reversed_patterns)}
    \cup {correct_patterns[p] : p \in 1..Len(correct_patterns)}
    \cup {<<"dot">>, <<"bang">>, <<"comma">>, <<"tab">>, <<"he">>}

RECURSIVE Flatten(_)
Flatten(tokens) ==
    IF tokens = <<>> THEN <<>> ELSE Head(tokens) \o Flatten(Tail(tokens))

\* a one-record collection around a text
OneRecord(text) ==
    << [id |-> 1, text |-> text, options |-> <<OptA, text>>, category |-> CatA] >>

InitTexts ==
    \/ \E n \in 0..MaxTokens : \E ts \in [1..n -> CoreTokens] :
           StartOn(OneRecord(Flatten(ts)))
    \/ \E a \in AllTokens : \E b \in AllTokens :
           StartOn(OneRecord(a \o b))
    \/ \E s \in 1..Len(Shapes) : StartOn(<<Shapes[s]>>)

SpecTexts == InitTexts /\ [][Next]_vars

-----------------------------------------------------------------------------
(* Vocabulary of the properties. *)

\* the loop has appended an output record for input position i
Appended(i) == i \in 1..Len(fixed_questions)

\* output record i was produced by fix_question (a new dict), not passed through
Routed(i) == Appended(i) /\ fixed_questions[i] # questions[i]

\* the for loop has consumed every record without raising
LoopOver == pc \in {"print", "done"} \/ (pc = "loop" /\ idx = Len(questions))

\* the text of a JSON record, as q.get('text', '') reads it
JsonText(r) == IF "text" \in DOMAIN r THEN r["text"] ELSE <<>>

\* b is a read back to front
IsReversalOf(a, b) ==
    /\ Len(a) = Len(b)
    /\ \A k \in 1..Len(a) : b[k] = a[Len(a) + 1 - k]

SameId(a, b) ==
    /\ "id" \in DOMAIN a <=> "id" \in DOMAIN b
    /\ "id" \in DOMAIN a => a["id"] = b["id"]

HasCorrect(t) == \E p \in 1..Len(correct_patterns) : Contains(t, correct_patterns[p])
HasReversed(t) == \E p \in 1..Len(reversed_patterns) : Contains(t, reversed_patterns[p])

\* t, with the whitespace at its end dropped, ends in suffix
TrimmedEndsIn(t, suffix) ==
    \E k \in 1..Len(t) :
        /\ k >= Len(suffix)
        /\ SubSeq(t, k - Len(suffix) + 1, k) = suffix
        /\ \A j \in (k + 1)..Len(t) : t[j] \in {"sp", "nl", "tab"}

\* the trimmed text ends in the reversed "during", bare or with one of ? . !
EndsInTrailing(t) ==
    \/ TrimmedEndsIn(t, <<"tav", "ayin", "bet">>)
    \/ \E c \in {"qm", "dot", "bang"} : TrimmedEndsIn(t, <<"tav", "ayin", "bet", c>>)

-----------------------------------------------------------------------------
(* Properties of the driver and of fix_question, under Spec. *)

\* C1: once the loop has consumed every record, the output collection is as
\* long as the input and its record at each position has the id of the input
\* record at that position (or none, where the input record has none); the
\* same holds of the collection written to the file.
C1_OrderAndCount ==
    /\ LoopOver =>
          /\ Len(fixed_questions) = Len(input)
          /\ \A i \in 1..Len(input) : SameId(dicts[fixed_questions[i]], input[i])
    /\ pc \in {"print", "done"} =>
          /\ Len(file) = Len(input)
          /\ \A i \in 1..Len(input) : SameId(file[i], input[i])

C1_Witness ==
    /\ pc = "done"
    /\ Len(input) = 3
    /\ Routed(1) /\ ~Routed(2) /\ Routed(3)

\* C4: a record returned by fix_question has exactly the keys of the record
\* it was called on, and every key other than text, options and category
\* holds the value it held there.
C4_FieldScoping ==
    \A i \in 1..Len(fixed_questions) :
        Routed(i) =>
            LET R == input[i]
                F == dicts[fixed_questions[i]]
            IN  /\ DOMAIN F = DOMAIN R
                /\ \A k \in (DOMAIN R) \ {"text", "options", "category"} : F[k] = R[k]

C4_Witness ==
    \E i, j \in 1..Len(fixed_questions) :
        /\ Routed(i) /\ "category" \notin DOMAIN input[i]
        /\ Routed(j) /\ {"category", "correct", "id"} \subseteq DOMAIN input[j]

\* C5: in the collection written out, a record whose input text is classified
\* reversed has its text, each of its options and its category (if present)
\* reversed, with as many options as before; any other record equals the
\* input record.
C5_AllOrNothing ==
    pc \in {"print", "done"} =>
        /\ Len(file) = Len(input)
        /\ \A i \in 1..Len(input) :
              LET r == input[i]
                  o == file[i]
              IN  IF is_reversed_hebrew(JsonText(r))
                  THEN /\ IsReversalOf(r["text"], o["text"])
                       /\ Len(o["options"]) = Len(r["options"])
                       /\ \A k \in 1..Len(r["options"]) :
                              IsReversalOf(r["options"][k], o["options"][k])
                       /\ "category" \in DOMAIN r =>
                              /\ "category" \in DOMAIN o
                              /\ IsReversalOf(r["category"], o["category"])
                  ELSE o = r

C5_Witness ==
    /\ pc = "done"
    /\ \E i, j \in 1..Len(input) :
          /\ is_reversed_hebrew(JsonText(input[i]))
          /\ "category" \in DOMAIN input[i]
          /\ Len(input[i]["options"]) >= 2
          /\ ~is_reversed_hebrew(JsonText(input[j]))
          /\ "options" \in DOMAIN input[j]
          /\ \E k \in 1..Len(input[j]["options"]) :
                 is_reversed_hebrew(input[j]["options"][k])

\* C6: while the run has not finished its loop, and after it aborted, the file
\* holds the loaded input; the loop never gets past a flagged record without
\* options, so with such a record in the collection nothing is ever written or
\* reported; the file is written only after every record was consumed without
\* an error.
FlaggedWithoutOptions(r) ==
    is_reversed_hebrew(JsonText(r)) /\ "options" \notin DOMAIN r

C6_AbortBeforeWrite ==
    /\ pc \in {"start", "loop", "aborted"} => file = input /\ out = <<>>
    /\ pc = "loop" => \A i \in 1..idx : ~FlaggedWithoutOptions(input[i])
    /\ (\E i \in 1..Len(input) : FlaggedWithoutOptions(input[i])) =>
          /\ pc \in {"start", "loop", "aborted"}
          /\ file = input
    /\ pc = "aborted" /\ err = "options" => FlaggedWithoutOptions(input[idx + 1])
    /\ pc \in {"print", "done"} =>
          /\ err = "none"
          /\ idx = Len(input)
          /\ Len(fixed_questions) = Len(input)

C6_Witness ==
    /\ pc = "aborted"
    /\ err = "options"
    /\ fixed_count >= 1
    /\ file = input

\* C7 as claimed: on the scenario's collection as written (records with only
\* id and text) the run completes, and ends with record 1 reversed, record 2
\* unchanged and the report 1 of 2, ids [1].
ScenarioFixedText ==
    <<"qm", "yod", "kaf", "vav", "lamed", "tav", "sp", "mem", "he", "sp">>

C7_ScenarioAsWritten ==
    input = Scenario =>
        /\ pc # "aborted"
        /\ pc = "done" =>
              /\ file[1]["text"] = ScenarioFixedText
              /\ file[2] = input[2]
              /\ fixed_ids = <<1>>

\* C7 as amended: on the scenario's collection as written the run aborts on
\* record 1 with the missing key "options", and writes and reports nothing;
\* with an options list on both records the run does not abort and ends with
\* record 1 reversed, record 2 unchanged, the report 1 of 2 and the ids [1].
C7_ScenarioAmended ==
    /\ input = Scenario =>
          /\ pc \in {"start", "loop", "aborted"}
          /\ pc = "loop" => idx = 0
          /\ pc = "aborted" => err = "options" /\ idx = 0
          /\ file = input
          /\ out = <<>>
    /\ input = ScenarioWithOptions =>
          /\ pc # "aborted"
          /\ pc = "done" =>
                /\ Len(file) = 2
                /\ file[1] = [id |-> 1, text |-> ScenarioFixedText,
                              options |-> << <<"final_nun", "kaf">>,
                                             <<"alef", "lamed">> >>]
                /\ file[2] = input[2]
                /\ fixed_ids = <<1>>
                /\ out = << [fixed |-> 1, total |-> 2,
                             line |-> [ids |-> <<1>>, ellipsis |-> FALSE]] >>

C7_Witness ==
    /\ input = ScenarioWithOptions
    /\ pc = "done"
    /\ out # <<>>

\* C9: fix_question leaves the record it is called on as it was: the loaded
\* collection keeps holding the records of the input, options included, and
\* the options list of a returned record is another list than the one of the
\* record it was made from.
C9_InputNotMutated ==
    pc # "start" =>
        /\ Dump(dicts, lists, questions) = input
        /\ \A i \in 1..Len(fixed_questions) :
              Routed(i) =>
                  dicts[fixed_questions[i]]["options"] # dicts[questions[i]]["options"]

C9_Witness ==
    /\ pc = "done"
    /\ \E i \in 1..Len(input) :
          /\ Routed(i)
          /\ "category" \in DOMAIN input[i]
          /\ Len(input[i]["options"]) >= 2

\* C10: between iterations and after the loop, fixed_count is the length of
\* fixed_ids, and fixed_ids holds in order the ids of the consumed records
\* whose output record fix_question produced; the report gives the number of
\* those records (the changed records: the ones replaced by a fixed copy),
\* the length of the collection, and the ids: all of them when there are at
\* most 20, the first 20 and an ellipsis otherwise.
RECURSIVE IdsOfRouted(_)
IdsOfRouted(n) ==
    IF n = 0 THEN <<>>
    ELSE IF Routed(n) THEN Append(IdsOfRouted(n - 1), input[n]["id"])
    ELSE IdsOfRouted(n - 1)

C10_Counters ==
    /\ pc \in {"loop", "print", "done"} =>
          /\ Len(fixed_questions) = idx
          /\ fixed_count = Len(fixed_ids)
          /\ fixed_ids = IdsOfRouted(idx)
    /\ pc = "done" =>
          /\ Len(out) = 1
          /\ out[1].fixed = Cardinality({i \in 1..Len(input) : Routed(i)})
          /\ out[1].total = Len(input)
          /\ IF Len(fixed_ids) <= 20
             THEN out[1].line.ids = fixed_ids /\ ~out[1].line.ellipsis
             ELSE /\ out[1].line.ids = SubSeq(fixed_ids, 1, 20)
                  /\ out[1].line.ellipsis

C10_Witness ==
    /\ pc = "done"
    /\ Len(fixed_ids) > 20
    /\ Len(out[1].line.ids) = 20
    /\ out[1].line.ellipsis

-----------------------------------------------------------------------------
(* Properties of the classifier, under SpecTexts. *)

\* C2: the text of a record that fix_question produced is not classified as
\* reversed.
C2_FixClearsFlag ==
    \A i \in 1..Len(fixed_questions) :
        Routed(i) => ~is_reversed_hebrew(dicts[fixed_questions[i]]["text"])

\* C3: a text that holds an entry of correct_patterns and also an entry of
\* reversed_patterns or the trailing reversed "during" is classified as not
\* reversed: its record is passed through.
C3_CorrectPrecedence ==
    \A i \in 1..Len(input) :
        LET t == JsonText(input[i])
        IN  HasCorrect(t) /\ (HasReversed(t) \/ EndsInTrailing(t)) =>
                /\ ~is_reversed_hebrew(t)
                /\ Appended(i) => ~Routed(i)

C3_Witness ==
    /\ pc = "done"
    /\ \E p \in 1..Len(reversed_patterns) : \E c \in 1..Len(correct_patterns) :
          JsonText(input[1]) = reversed_patterns[p] \o correct_patterns[c]
    /\ ~Routed(1)

\* C8: a text with no entry of correct_patterns whose trimmed form ends in
\* the reversed "during", bare or followed by one of ? . !, is classified as
\* reversed; a text with no entry of either list whose trimmed form does not
\* end so is classified as not reversed, wherever else it holds the word.
C8_TrailingRule ==
    \A i \in 1..Len(fixed_questions) :
        LET t == JsonText(input[i])
        IN  /\ ~HasCorrect(t) /\ EndsInTrailing(t) => Routed(i)
            /\ ~HasCorrect(t) /\ ~HasReversed(t) /\ ~EndsInTrailing(t) => ~Routed(i)

C8_Witness ==
    /\ pc = "done"
    /\ LET t == JsonText(input[1])
       IN  /\ ~HasCorrect(t) /\ ~HasReversed(t)
           /\ EndsInTrailing(t)
           /\ t[Len(t)] \in {"sp", "nl", "tab"}
           /\ Routed(1)

=============================================================================
